---- MODULE Spec2Model ----
(***************************************************************************)
(* Model of puddle_world/envs/puddle_world.py: the categorical sampler     *)
(* the DiscreteEnv transition engine and the GridWorld environment (reset  *)
(* / step, reward rule, coordinate mapping).                               *)
(*                                                                         *)
(* Real numbers are modelled as integers: probabilities, the noise level   *)
(* and uniform draws in [0, 1) are counted in units of 1/Resolution (the   *)
(* sampler) or 1/NoiseUnit (the action noise); rewards are counted in      *)
(* tenths.                                                                 *)
(* Python exceptions (AssertionError) are modelled by a "raised" flag.     *)
(***************************************************************************)
EXTENDS Integers, Sequences, FiniteSets, TLC

\* ---------------------------------------------------------------- bounds
MaxN == 3             \* grid side n ranges over 2..MaxN
MaxOffset == 2        \* terminal_state_offset ranges over 0..MaxOffset
Resolution == 3       \* a probability / a sampler draw is k/Resolution
NoiseUnit == 2        \* the noise level / a noise draw is k/NoiseUnit
MaxLen == 4           \* length of a probability vector, 1..MaxLen

\* ------------------------------------------------------------- constants
UP == 0
RIGHT == 1
DOWN == 2
LEFT == 3

\* configurations explored (rewards in tenths)
TerminalRewards == {10}
BorderRewards == {0, 3}
StepRewards == {0}
BumpRewards == {0, -5}
Noises == {0, 1}                        \* 0 and 1/NoiseUnit
RandDraws == 0 .. (NoiseUnit - 1)       \* np.random.rand() in [0, 1)
ActionArgs == 0 .. 4                    \* arguments a caller passes to step

VARIABLES
    \* GridWorld fields
    n, noise, terminal_reward, border_reward, bump_reward, step_reward,
    n_states, terminal_state, absorbing_state, done, start_state, state,
    \* the last call on the GridWorld: which method, its argument, the
    \* fields at entry, the action executed, and how it ended
    op, action, prev_state, prev_done, executed, raised, ret,
    \* the terminal_state_offset argument GridWorld was constructed with
    terminal_state_offset,
    \* the number of steps a caller following a policy has taken
    steps,
    \* categorical_sample: its arguments and its result
    prob_n, rand, sampled,
    \* DiscreteEnv fields
    P, isd, nS, nA, s, lastaction,
    \* the last call on the DiscreteEnv: which method, its argument, the
    \* state at entry, and how it ended
    env_op, env_action, env_prev_s, env_raised, env_ret,
    \* ind2coord / coord2ind called directly: arguments and results
    arg_index, arg_coord, res_ind2coord, res_coord2ind

gridConf == <<n, noise, terminal_reward, border_reward, bump_reward,
              step_reward, n_states, terminal_state, absorbing_state,
              start_state, terminal_state_offset>>
gridVars == <<gridConf, done, state, op, action, prev_state, prev_done,
              executed, raised, ret>>
sampleVars == <<prob_n, rand, sampled>>
envConf == <<P, isd, nS, nA>>
envVars == <<envConf, s, lastaction, env_op, env_action, env_prev_s,
             env_raised, env_ret>>
coordVars == <<arg_index, arg_coord, res_ind2coord, res_coord2ind>>
vars == <<gridVars, steps, sampleVars, envVars, coordVars>>

\* ------------------------------------------------------ categorical_sample
RECURSIVE SumTo(_, _)
\* prob_n[1] + ... + prob_n[i]
SumTo(p, i) == IF i = 0 THEN 0 ELSE SumTo(p, i - 1) + p[i]

\* np.cumsum
cumsum(p) == [i \in 1 .. Len(p) |-> SumTo(p, i)]

\* argmax returning the last position holding the maximum
argmax_last(b) ==
    IF \E i \in 1 .. Len(b) : b[i]
    THEN (CHOOSE i \in 1 .. Len(b) :
              b[i] /\ \A j \in (i + 1) .. Len(b) : ~b[j]) - 1
    ELSE 0

\* ndarray.argmax of a boolean array, 0-based: the first position holding
\* the maximum; when every entry is False the maximum is False and the
\* first position is 0.
argmax(b) ==
    IF \E i \in 1 .. Len(b) : b[i]
    THEN (CHOOSE i \in 1 .. Len(b) :
              b[i] /\ \A j \in 1 .. (i - 1) : ~b[j]) - 1
    ELSE 0

\* the sampler comparing with >= where the code has >
categorical_sample_ge(p, r) ==
    LET csprob_n == cumsum(p)
    IN  argmax([i \in 1 .. Len(p) |-> csprob_n[i] >= r])

categorical_sample(p, r) ==
    LET csprob_n == cumsum(p)
    IN  argmax([i \in 1 .. Len(p) |-> csprob_n[i] > r])

\* ------------------------------------------------------------ DiscreteEnv
\* what a transition leads to: (nextstate, reward in tenths, done)
Outcomes == {<<0, 0, FALSE>>, <<1, 50, TRUE>>, <<1, 0, TRUE>>}

\* the lists P[s][a] explored: one or two tuples
\* (probability, nextstate, reward, done) whose probabilities sum to 1
TransLists ==
    {<< <<Resolution, o[1], o[2], o[3]>> >> : o \in Outcomes}
    \cup {<< <<q, o1[1], o1[2], o1[3]>>,
             <<Resolution - q, o2[1], o2[2], o2[3]>> >> :
              q \in 0 .. Resolution, o1 \in Outcomes, o2 \in Outcomes}

\* the tables P explored: an entry for every state and every action
Tables == [0 .. (nS - 1) -> [0 .. (nA - 1) -> TransLists]]

\* the initial state distributions explored: nS weights summing to 1
Isds == {d \in [1 .. nS -> 0 .. Resolution] : SumTo(d, nS) = Resolution}

\* the table and the distribution of the two-state scenario
ScenarioP ==
    (0 :> (0 :> << <<Resolution, 1, 50, TRUE>> >>))
        @@ (1 :> (0 :> << <<Resolution, 1, 0, TRUE>> >>))
ScenarioIsd == <<Resolution, 0>>

\* the first tuple, whatever the draw
chosen_first(transitions, r) == transitions[1]

\* lines 55-56: the tuple of transitions that _step unpacks when
\* np_random.rand() is r
chosen(transitions, r) ==
    LET i == categorical_sample(
                 [k \in 1 .. Len(transitions) |-> transitions[k][1]], r)
    IN  transitions[i + 1]

\* DiscreteEnv.__init__ followed by its call of _reset
EnvInit ==
    /\ nS = 2
    /\ nA = 1
    /\ P \in Tables
    /\ isd \in Isds
    /\ \E r \in 0 .. (Resolution - 1) : s = categorical_sample(isd, r)
    /\ lastaction = <<>>
    /\ env_op = "init"
    /\ env_action = 0
    /\ env_prev_s = s
    /\ env_raised = FALSE
    /\ env_ret = <<>>

\* DiscreteEnv._reset; lastaction is <<>> for None and <<a>> for a
env_reset ==
    /\ env_op' = "reset"
    /\ env_prev_s' = s
    /\ \E r \in 0 .. (Resolution - 1) : s' = categorical_sample(isd, r)
    /\ lastaction' = <<>>
    /\ env_raised' = FALSE
    /\ env_ret' = <<s'>>
    /\ UNCHANGED <<envConf, env_action>>

\* DiscreteEnv._step; a missing key of P raises KeyError at line 54
env_step(a) ==
    /\ env_op' = "step"
    /\ env_action' = a
    /\ env_prev_s' = s
    /\ UNCHANGED envConf
    /\ IF s \notin DOMAIN P \/ a \notin DOMAIN P[s]
       THEN /\ env_raised' = TRUE
            /\ env_ret' = <<>>
            /\ UNCHANGED <<s, lastaction>>
       ELSE \E r \in 0 .. (Resolution - 1) :
            LET t == chosen(P[s][a], r)
            IN  /\ s' = t[2]
                /\ lastaction' = <<a>>
                /\ env_raised' = FALSE
                /\ env_ret' = <<t[2], t[3], t[4], [prob |-> t[1]]>>

\* ------------------------------------------------------------- GridWorld
\* a space of five actions
action_space_contains_five(a) == a \in 0 .. 4

\* spaces.Discrete(4).contains
action_space_contains(a) == a \in 0 .. 3

\* a value or an AssertionError
Raise == [raised |-> TRUE, value |-> <<>>]
Return(v) == [raised |-> FALSE, value |-> v]

ind2coord(index) ==
    IF index >= 0
    THEN Return(<<index % n, index \div n>>)      \* [row, col]
    ELSE Raise

\* coord2ind numbering the cells row by row
coord2ind_row_major(coord) ==
    LET row == coord[1]
        col == coord[2]
    IN  IF row < n /\ col < n THEN Return(row * n + col) ELSE Raise

\* coord2ind with its two assertions removed
coord2ind_unchecked(coord) == Return(coord[2] * n + coord[1])

coord2ind(coord) ==
    LET row == coord[1]
        col == coord[2]
    IN  IF row < n /\ col < n THEN Return(col * n + row) ELSE Raise

Max(a, b) == IF a >= b THEN a ELSE b
Min(a, b) == IF a <= b THEN a ELSE b

\* the move with DOWN clamped to row 0
move_down_stuck(coord, a) ==
    LET row == coord[1]
        col == coord[2]
    IN  IF a = UP THEN <<Max(row - 1, 0), col>>
        ELSE IF a = DOWN THEN <<Min(row + 1, 0), col>>
        ELSE IF a = RIGHT THEN <<row, Min(col + 1, n - 1)>>
        ELSE IF a = LEFT THEN <<row, Max(col - 1, 0)>>
        ELSE coord

\* the move with UP left unclamped
move_up_unclamped(coord, a) ==
    LET row == coord[1]
        col == coord[2]
    IN  IF a = UP THEN <<row - 1, col>>
        ELSE IF a = DOWN THEN <<Min(row + 1, n - 1), col>>
        ELSE IF a = RIGHT THEN <<row, Min(col + 1, n - 1)>>
        ELSE IF a = LEFT THEN <<row, Max(col - 1, 0)>>
        ELSE coord

\* the if / elif chain of _step, lines 104-111
move(coord, a) ==
    LET row == coord[1]
        col == coord[2]
    IN  IF a = UP THEN <<Max(row - 1, 0), col>>
        ELSE IF a = DOWN THEN <<Min(row + 1, n - 1), col>>
        ELSE IF a = RIGHT THEN <<row, Min(col + 1, n - 1)>>
        ELSE IF a = LEFT THEN <<row, Max(col - 1, 0)>>
        ELSE coord

\* at_border, on self.state = st
at_border(st) ==
    LET c == ind2coord(st).value
    IN  c[1] = 0 \/ c[1] = n - 1 \/ c[2] = 0 \/ c[2] = n - 1

\* _get_reward without its test of self.done
get_reward_ignores_done(d, st, new_state) ==
    LET r1 == IF border_reward # 0 /\ at_border(st)
              THEN border_reward ELSE step_reward
    IN  IF bump_reward # 0 /\ <<st>> = new_state THEN bump_reward ELSE r1

\* _get_reward with the border test placed after the bump test
get_reward_border_last(d, st, new_state) ==
    IF d THEN terminal_reward
    ELSE LET r1 == IF bump_reward # 0 /\ <<st>> = new_state
                   THEN bump_reward ELSE step_reward
         IN  IF border_reward # 0 /\ at_border(st) THEN border_reward ELSE r1

\* _get_reward with the border test made on the state moved to
get_reward_border_of_new(d, st, new_state) ==
    IF d THEN terminal_reward
    ELSE LET r1 == IF border_reward # 0 /\ at_border(new_state[1])
                   THEN border_reward ELSE step_reward
         IN  IF bump_reward # 0 /\ <<st>> = new_state THEN bump_reward ELSE r1

\* _get_reward, with self.done = d and self.state = st; the optional
\* argument is <<>> for the default None and <<v>> for the index v, so that
\* self.state == None is false as in Python
get_reward(d, st, new_state) ==
    IF d THEN terminal_reward
    ELSE LET r0 == step_reward
             r1 == IF border_reward # 0 /\ at_border(st)
                   THEN border_reward ELSE r0
             r2 == IF bump_reward # 0 /\ <<st>> = new_state
                   THEN bump_reward ELSE r1
         IN  r2

\* the replacement drawn among three actions only
noisy_three(a) == {IF u < noise THEN k ELSE a : u \in RandDraws, k \in 0 .. 2}

\* lines 101-102: the action executed, for every np.random.rand() draw u
\* and every action_space.sample() result k
noisy(a) == {IF u < noise THEN k ELSE a : u \in RandDraws, k \in 0 .. 3}

None == "None"

\* an integer of [0, high]
randint_inclusive(high) == 0 .. high

\* np.random.randint(high): an integer of [0, high)
randint(high) == 0 .. (high - 1)

\* the state _reset assigns
reset_states ==
    IF start_state.isstr THEN randint(n_states - 1) ELSE {start_state.value}

\* the offset counted back from the last grid cell but one
terminal_state_before(nstates, offset) == nstates - 3 - offset

\* line 81
terminal_state_of(nstates, offset) == nstates - 2 - offset

\* GridWorld.__init__ followed by its call of _reset
GridInit ==
    /\ n \in 2 .. MaxN
    /\ noise \in Noises
    /\ terminal_reward \in TerminalRewards
    /\ border_reward \in BorderRewards
    /\ bump_reward \in BumpRewards
    /\ step_reward \in StepRewards
    /\ n_states = n * n + 1
    /\ terminal_state_offset \in 0 .. MaxOffset
    /\ terminal_state = terminal_state_of(n_states, terminal_state_offset)
    /\ absorbing_state = n_states - 1
    /\ start_state \in [isstr : {FALSE}, value : 0 .. (n * n - 1)]
                          \cup {[isstr |-> TRUE, value |-> 0]}
    /\ state \in reset_states
    /\ done = FALSE
    /\ op = "init"
    /\ action = UP
    /\ prev_state = state
    /\ prev_done = FALSE
    /\ executed = UP
    /\ raised = FALSE
    /\ ret = <<>>

\* categorical_sample called on <<1.0>> with draw 0
SamplerIdle ==
    /\ prob_n = <<Resolution>>
    /\ rand = 0
    /\ sampled = categorical_sample(prob_n, rand)

\* _reset leaving self.done as it is
reset_keeps_done ==
    /\ op' = "reset"
    /\ prev_state' = state
    /\ prev_done' = done
    /\ state' \in reset_states
    /\ done' = done
    /\ raised' = FALSE
    /\ ret' = <<state'>>
    /\ UNCHANGED <<gridConf, action, executed>>

_reset ==
    /\ op' = "reset"
    /\ prev_state' = state
    /\ prev_done' = done
    /\ state' \in reset_states
    /\ done' = FALSE
    /\ raised' = FALSE
    /\ ret' = <<state'>>
    /\ UNCHANGED <<gridConf, action, executed>>

\* the call raises before any assignment to a field
StepRaises(a, e) ==
    /\ raised' = TRUE
    /\ ret' = <<>>
    /\ executed' = e
    /\ UNCHANGED <<state, done>>

_step(a) ==
    /\ op' = "step"
    /\ action' = a
    /\ prev_state' = state
    /\ prev_done' = done
    /\ UNCHANGED gridConf
    /\ IF ~action_space_contains(a)
       THEN StepRaises(a, a)
       ELSE IF state = terminal_state
       THEN /\ state' = absorbing_state
            /\ done' = TRUE
            /\ raised' = FALSE
            /\ executed' = a
            /\ ret' = <<state', get_reward(done', state', <<>>), done', None>>
       ELSE \E act \in noisy(a) :
            LET rc == ind2coord(state)
            IN  IF rc.raised
                THEN StepRaises(a, a)
                ELSE LET ni == coord2ind(move(rc.value, act))
                     IN  IF ni.raised
                         THEN StepRaises(a, act)
                         ELSE /\ state' = ni.value
                              /\ done' = done
                              /\ raised' = FALSE
                              /\ executed' = act
                              /\ ret' = <<state',
                                          get_reward(done, state, <<ni.value>>),
                                          done, None>>

\* ind2coord and coord2ind called on 0 and [0, 0]
CoordIdle ==
    /\ arg_index = 0
    /\ arg_coord = <<0, 0>>
    /\ res_ind2coord = ind2coord(arg_index)
    /\ res_coord2ind = coord2ind(arg_coord)

\* the DiscreteEnv of the two-state scenario, constructed and left alone
EnvIdle ==
    /\ P = ScenarioP
    /\ isd = ScenarioIsd
    /\ EnvInit

\* a GridWorld without noise or shaping rewards, started at cell 0
GridPlain ==
    /\ GridInit
    /\ noise = 0
    /\ border_reward = 0
    /\ bump_reward = 0
    /\ terminal_state_offset = 0
    /\ start_state = [isstr |-> FALSE, value |-> 0]

\* one such GridWorld, constructed and left alone
GridIdle == GridPlain /\ n = 2

\* ---------------------------------------------- GridWorld: reset and step
Init ==
    /\ GridInit
    /\ steps = 0
    /\ SamplerIdle
    /\ EnvIdle
    /\ CoordIdle

Next ==
    \/ _reset /\ UNCHANGED <<steps, sampleVars, envVars, coordVars>>
    \/ \E a \in ActionArgs :
           _step(a) /\ UNCHANGED <<steps, sampleVars, envVars, coordVars>>

Spec == Init /\ [][Next]_vars

\* the noisy GridWorlds with a random start and the terminal cell in the
\* last grid cell, reset and stepped as above
NoisyInit ==
    /\ Init
    /\ noise > 0
    /\ start_state.isstr
    /\ terminal_state_offset = 0

NoisySpec == NoisyInit /\ [][Next]_vars

\* ------------------------------------------------ DiscreteEnv: reset, step
EnvSpecInit ==
    /\ GridIdle
    /\ steps = 0
    /\ SamplerIdle
    /\ EnvInit
    /\ CoordIdle

EnvNext ==
    \/ env_reset /\ UNCHANGED <<gridVars, steps, sampleVars, coordVars>>
    \/ \E a \in 0 .. nA :
           env_step(a) /\ UNCHANGED <<gridVars, steps, sampleVars, coordVars>>

EnvSpec == EnvSpecInit /\ [][EnvNext]_vars

\* ------------------------------------------- categorical_sample, applied
\* probability vectors: 1..MaxLen weights, each k/Resolution, whose total
\* is 1 or falls short of 1 by one unit
ProbVectors ==
    {p \in UNION {[1 .. l -> 0 .. Resolution] : l \in 1 .. MaxLen} :
        SumTo(p, Len(p)) \in {Resolution - 1, Resolution}}

\* the sampler called on <<1.0>> with draw 0; the environments left alone
SamplerInit ==
    /\ GridIdle
    /\ steps = 0
    /\ SamplerIdle
    /\ EnvIdle
    /\ CoordIdle

\* one call categorical_sample(p, np_random) whose np_random.rand() is r
Sample ==
    \E p \in ProbVectors, r \in 0 .. (Resolution - 1) :
        /\ prob_n' = p
        /\ rand' = r
        /\ sampled' = categorical_sample(p, r)
        /\ UNCHANGED <<gridVars, steps, envVars, coordVars>>

SamplerNext == Sample

SamplerSpec == SamplerInit /\ [][SamplerNext]_vars

\* ------------------------------------- ind2coord and coord2ind, applied
IndexArgs == -1 .. (n * n + 1)
CoordArgs == (-1 .. n) \X (-1 .. n)

CoordInit ==
    /\ GridPlain
    /\ steps = 0
    /\ SamplerIdle
    /\ EnvIdle
    /\ CoordIdle

\* one call of ind2coord(i) and one of coord2ind(c)
Convert ==
    \E i \in IndexArgs, c \in CoordArgs :
        /\ arg_index' = i
        /\ arg_coord' = c
        /\ res_ind2coord' = ind2coord(i)
        /\ res_coord2ind' = coord2ind(c)
        /\ UNCHANGED <<gridVars, steps, sampleVars, envVars>>

CoordNext == Convert

CoordSpec == CoordInit /\ [][CoordNext]_vars

\* ------------------------- GridWorld stepped by a caller heading for the
\* terminal cell: first along the row axis, then along the column axis;
\* at the terminal cell any action does
policy(st) ==
    LET here == ind2coord(st).value
        goal == ind2coord(terminal_state).value
    IN  IF here[1] < goal[1] THEN DOWN
        ELSE IF here[1] > goal[1] THEN UP
        ELSE IF here[2] < goal[2] THEN RIGHT
        ELSE IF here[2] > goal[2] THEN LEFT
        ELSE UP

\* the caller gives up after MaxSteps calls
MaxSteps == 2 * (n - 1) + 2

GreedyInit ==
    /\ GridInit
    /\ noise = 0
    /\ terminal_state_offset < n * n
    /\ steps = 0
    /\ SamplerIdle
    /\ EnvIdle
    /\ CoordIdle

\* the caller's loop body: one step, until done is returned
GreedyStep ==
    /\ ~done
    /\ steps < MaxSteps
    /\ _step(policy(state))
    /\ steps' = steps + 1
    /\ UNCHANGED <<sampleVars, envVars, coordVars>>

GreedyNext == GreedyStep

\* the caller keeps calling step while its loop condition holds
GreedySpec == GreedyInit /\ [][GreedyNext]_vars /\ WF_vars(GreedyStep)

\* ============================================================ properties
\* what the last call returned
retState == ret[1]
retReward == ret[2]
retDone == ret[3]
ValidActions == {UP, RIGHT, DOWN, LEFT}
GridCells == 0 .. (n * n - 1)
RowOf(st) == st % n
ColOf(st) == st \div n
\* the last call was step(a) with a valid a
ValidStep == op = "step" /\ action \in ValidActions

\* C1: once a step has returned done = true (and until the next reset),
\* current_state is the absorbing state n*n.
C1_DoneStaysAbsorbing == done => state = absorbing_state

\* C2: a step with a valid action taken when done is true and current_state
\* is the absorbing state completes without an assertion failure and
\* returns reward = terminal_reward with done = true.
C2_AbsorbingStepCompletes ==
    (ValidStep /\ prev_done /\ prev_state = absorbing_state)
        => (~raised /\ retReward = terminal_reward /\ retDone)

\* C3: with start_state in [0, n*n), after construction and after any
\* sequence of reset and step calls, failed steps included,
\* 0 <= current_state < n_states = n*n + 1.
C3_StateInRange ==
    /\ n_states = n * n + 1
    /\ 0 <= state
    /\ state < n_states

\* a step from the absorbing state failed with an assertion and left the
\* state where it was
C3_Witness ==
    /\ op = "step" /\ raised /\ action = DOWN
    /\ prev_state = absorbing_state
    /\ state = absorbing_state

\* C4: a step with a valid action taken at terminal_state sets
\* current_state to absorbing_state and done to true and returns
\* (absorbing_state, terminal_reward, true, none), whatever the action and
\* the noise.
C4_TerminalStep ==
    (ValidStep /\ prev_state = terminal_state)
        => /\ ~raised
           /\ state = absorbing_state
           /\ done
           /\ ret = <<absorbing_state, terminal_reward, TRUE, None>>

\* a noisy environment was stepped LEFT from the terminal cell
C4_Witness ==
    /\ ValidStep /\ action = LEFT /\ noise > 0
    /\ prev_state = terminal_state /\ ~prev_done
    /\ state = absorbing_state /\ retReward = terminal_reward

\* C5: in an episode the terminal reward is granted once: the step that
\* arrives at terminal_state returns done = false, the step taken from
\* terminal_state returns terminal_reward, and no other step returns
\* through the done branch (done = true in the result).
C5_TerminalRewardOnce ==
    (ValidStep /\ ~raised)
        => /\ (state = terminal_state => ~retDone)
           /\ (prev_state = terminal_state => retReward = terminal_reward)
           /\ (retDone => prev_state = terminal_state)

\* the clamped move written out on the index: row = s mod n, col = s div n
ClampedMove(st, a) ==
    CASE a = UP -> IF RowOf(st) = 0 THEN st ELSE st - 1
      [] a = DOWN -> IF RowOf(st) = n - 1 THEN st ELSE st + 1
      [] a = RIGHT -> IF ColOf(st) = n - 1 THEN st ELSE st + n
      [] a = LEFT -> IF ColOf(st) = 0 THEN st ELSE st - n

\* C6: with noise = 0, a step with a valid action from a grid cell other
\* than terminal_state with done = false sets current_state to the index of
\* the clamped move and returns it with done = false; a move outward from
\* an edge leaves current_state unchanged.
C6_ClampedMoveNoNoise ==
    (ValidStep /\ noise = 0 /\ ~prev_done
       /\ prev_state \in GridCells /\ prev_state # terminal_state)
        => /\ ~raised
           /\ state = ClampedMove(prev_state, action)
           /\ retState = state
           /\ ~retDone /\ ~done

\* a move LEFT from column 0 left the state unchanged
C6_Witness ==
    /\ ValidStep /\ noise = 0 /\ ~prev_done /\ ~raised
    /\ prev_state \in GridCells /\ prev_state # terminal_state
    /\ action = LEFT /\ ColOf(prev_state) = 0
    /\ state = prev_state

\* C7 as stated: with noise = 0, step(UP) from any cell with row > 0 yields
\* the cell (row-1, col); from any cell with row = 0 it yields the same
\* cell and, if bump_reward != 0, the reward bump_reward.
C7_UpFromAnyCell ==
    (op = "step" /\ action = UP /\ noise = 0 /\ prev_state \in GridCells)
        => /\ ~raised
           /\ IF RowOf(prev_state) > 0
              THEN state = prev_state - 1
              ELSE /\ state = prev_state
                   /\ bump_reward # 0 => retReward = bump_reward

\* C7 amended: with noise = 0, step(UP) from any cell other than
\* terminal_state yields (row-1, col) when row > 0 and the same cell when
\* row = 0; on row = 0 with bump_reward != 0 the reward is bump_reward
\* when done was false at the call and terminal_reward when it was true.
C7_UpFromNonTerminalCell ==
    (op = "step" /\ action = UP /\ noise = 0 /\ prev_state \in GridCells
       /\ prev_state # terminal_state)
        => /\ ~raised
           /\ IF RowOf(prev_state) > 0
              THEN state = prev_state - 1
              ELSE /\ state = prev_state
                   /\ bump_reward # 0 =>
                        retReward = IF prev_done THEN terminal_reward
                                                 ELSE bump_reward

\* UP from row 0 of a border-rewarded grid bumped and paid bump_reward
C7_Witness ==
    /\ op = "step" /\ action = UP /\ noise = 0 /\ ~prev_done
    /\ prev_state \in GridCells /\ prev_state # terminal_state
    /\ RowOf(prev_state) = 0 /\ state = prev_state
    /\ bump_reward # 0 /\ border_reward # 0
    /\ retReward = bump_reward

OnBorder(st) ==
    RowOf(st) \in {0, n - 1} \/ ColOf(st) \in {0, n - 1}

\* C8: the reward of a non-terminal step taken with done = false is
\* bump_reward if bump_reward != 0 and the new state equals the pre-move
\* state; otherwise border_reward if border_reward != 0 and the pre-move
\* state has row or col equal to 0 or n-1; otherwise step_reward.
C8_RewardRule ==
    (ValidStep /\ ~raised /\ ~prev_done /\ prev_state # terminal_state)
        => retReward =
             IF bump_reward # 0 /\ state = prev_state THEN bump_reward
             ELSE IF border_reward # 0 /\ OnBorder(prev_state)
                  THEN border_reward
                  ELSE step_reward

\* a step from a border cell to an inner cell paid border_reward
C8_Witness ==
    /\ ValidStep /\ ~raised /\ ~prev_done /\ prev_state # terminal_state
    /\ border_reward # 0 /\ bump_reward # 0
    /\ OnBorder(prev_state) /\ ~OnBorder(state)
    /\ retReward = border_reward

Total(p) == SumTo(p, Len(p))

\* C9: for a probability vector summing to 1 and a draw in [0, 1) the
\* sampler returns the smallest index i with cs[i] > draw, that is
\* cs[i-1] <= draw < cs[i] with cs[-1] = 0; the index returned has a
\* positive probability.
C9_InverseCDF ==
    Total(prob_n) = Resolution
        => LET i == sampled + 1
           IN  /\ i \in 1 .. Len(prob_n)
               /\ SumTo(prob_n, i - 1) <= rand
               /\ rand < SumTo(prob_n, i)
               /\ \A j \in 1 .. (i - 1) : SumTo(prob_n, j) <= rand
               /\ prob_n[i] > 0

\* a vector summing to 1 whose first weight is 0 was sampled with draw 0
C9_Witness ==
    /\ Total(prob_n) = Resolution
    /\ Len(prob_n) >= 2 /\ prob_n[1] = 0
    /\ rand = 0
    /\ sampled >= 1

\* C10: when the vector sums to less than 1 and the draw is at or above
\* the total, the sampler returns the last index of the vector.
C10_LastIndexCatchAll ==
    (Total(prob_n) < Resolution /\ rand >= Total(prob_n))
        => sampled = Len(prob_n) - 1

\* C11: a step of the generic engine from state s picks one tuple
\* (p, s2, r, d) of P[s][a] with p > 0, sets the state to s2 and
\* lastaction to a, and returns (s2, r, d, {"prob": p}); P, isd, nS and nA
\* never change; on the two-state scenario table reset returns 0 and
\* step(0) from state 0 returns (1, 5.0, True, {"prob": 1.0}).
C11_EngineStep ==
    /\ []((env_op = "step" /\ ~env_raised)
            => \E k \in 1 .. Len(P[env_prev_s][env_action]) :
                 LET t == P[env_prev_s][env_action][k]
                 IN  /\ t[1] > 0
                     /\ s = t[2]
                     /\ lastaction = <<env_action>>
                     /\ env_ret = <<t[2], t[3], t[4], [prob |-> t[1]]>>)
    /\ []((P = ScenarioP /\ isd = ScenarioIsd)
            => /\ env_op = "reset" => env_ret = <<0>>
               /\ (env_op = "step" /\ env_action = 0 /\ env_prev_s = 0)
                    => env_ret = <<1, 50, TRUE, [prob |-> Resolution]>>)
    /\ [][UNCHANGED envConf]_vars

\* a two-way list whose first tuple has probability 0 was stepped through
C11_Witness ==
    /\ env_op = "step" /\ ~env_raised
    /\ Len(P[env_prev_s][env_action]) = 2
    /\ P[env_prev_s][env_action][1][1] = 0
    /\ P[env_prev_s][env_action][1][2] # P[env_prev_s][env_action][2][2]
    /\ s = P[env_prev_s][env_action][2][2]
    /\ s # env_prev_s

\* C12: construction and reset of the generic engine set the state to one
\* whose weight in isd is positive and lastaction to None; reset returns
\* the new state.
C12_EngineReset ==
    (env_op \in {"init", "reset"})
        => /\ s \in 0 .. (nS - 1)
           /\ isd[s + 1] > 0
           /\ lastaction = <<>>
           /\ env_op = "reset" => (~env_raised /\ env_ret = <<s>>)

\* a reset called in state 1, which only a step can have reached, went
\* back to state 0
C12_Witness ==
    /\ env_op = "reset"
    /\ isd = ScenarioIsd
    /\ env_prev_s = 1
    /\ s = 0
    /\ lastaction = <<>>

FixedStart == ~start_state.isstr

\* C13: with a fixed integer start_state, reset called in any state returns
\* start_state, sets current_state = start_state and done = false; a
\* second reset in a row changes neither the state nor the result; the
\* first step after a reset from a non-terminal start returns done = false.
C13_FixedReset ==
    /\ []((op = "reset" /\ FixedStart)
            => /\ state = start_state.value
               /\ ~done
               /\ ~raised
               /\ ret = <<start_state.value>>)
    /\ [][(op = "reset" /\ op' = "reset" /\ FixedStart)
            => (state' = state /\ done' = done /\ ret' = ret)]_vars
    /\ [][(op = "reset" /\ op' = "step" /\ ~raised' /\ FixedStart
             /\ state # terminal_state)
            => ret'[3] = FALSE]_vars

\* a reset called after done = true, in a cell other than the start
C13_Witness ==
    /\ op = "reset" /\ FixedStart
    /\ prev_done /\ prev_state # start_state.value
    /\ state = start_state.value /\ ~done

\* C14: with a random start (start_state a string) construction and every
\* reset set current_state to an index of [0, n*n), never to the absorbing
\* state n*n, and clear done.
C14_RandomReset ==
    (op \in {"init", "reset"} /\ start_state.isstr)
        => /\ state \in GridCells
           /\ state # absorbing_state
           /\ ~done

\* a reset called in the absorbing state drew the last grid cell
C14_Witness ==
    /\ op = "reset" /\ start_state.isstr
    /\ prev_done /\ prev_state = absorbing_state
    /\ state = n * n - 1 /\ ~done

\* C15: for every index i of [0, n*n), ind2coord(i) = (i mod n, i div n)
\* lies in [0, n) x [0, n) and coord2ind(ind2coord(i)) = i; for every
\* (row, col) of [0, n) x [0, n), coord2ind gives col*n + row in [0, n*n)
\* and ind2coord(coord2ind(row, col)) = (row, col).
C15_CoordRoundTrip ==
    /\ arg_index \in GridCells
         => /\ ~res_ind2coord.raised
            /\ res_ind2coord.value = <<arg_index % n, arg_index \div n>>
            /\ res_ind2coord.value \in (0 .. (n - 1)) \X (0 .. (n - 1))
            /\ coord2ind(res_ind2coord.value) = Return(arg_index)
    /\ arg_coord \in (0 .. (n - 1)) \X (0 .. (n - 1))
         => /\ ~res_coord2ind.raised
            /\ res_coord2ind.value = arg_coord[2] * n + arg_coord[1]
            /\ res_coord2ind.value \in GridCells
            /\ ind2coord(res_coord2ind.value) = Return(arg_coord)

\* the last index and the coordinate (n-1, 0) were converted
C15_Witness ==
    /\ arg_index = n * n - 1
    /\ res_ind2coord = Return(<<n - 1, n - 1>>)
    /\ arg_coord = <<n - 1, 0>>
    /\ res_coord2ind = Return(n - 1)

\* C16: ind2coord raises an assertion failure for every index outside
\* [0, n*n), the absorbing index n*n included, and coord2ind raises one
\* whenever row or col is outside [0, n).
C16_ConversionFailsLoudly ==
    /\ arg_index \notin GridCells => res_ind2coord.raised
    /\ arg_coord \notin (0 .. (n - 1)) \X (0 .. (n - 1))
         => res_coord2ind.raised

\* C17 as stated: n = 3 and terminal_state_offset = 1 give
\* terminal_state = 6 and absorbing_state = 9.
C17_TerminalIsSix ==
    (n = 3 /\ terminal_state_offset = 1)
        => (terminal_state = 6 /\ absorbing_state = 9)

\* C17 amended: n = 3 and terminal_state_offset = 1 give
\* terminal_state = 7 (n_states - 2 - offset with n_states = 10) and
\* absorbing_state = 9.
C17_TerminalIsSeven ==
    (n = 3 /\ terminal_state_offset = 1)
        => (n_states = 10 /\ terminal_state = 7 /\ absorbing_state = 9)

\* the 3 x 3 grid with offset 1, just constructed
C17_Witness ==
    /\ op = "init"
    /\ n = 3 /\ terminal_state_offset = 1
    /\ terminal_state = 7

\* C18: step(a) with a outside {0, 1, 2, 3} fails with an assertion and
\* leaves current_state and done as they were, in every state.
C18_InvalidActionRejected ==
    (op = "step" /\ action \notin ValidActions)
        => /\ raised
           /\ state = prev_state
           /\ done = prev_done

\* step(4) was refused at the terminal cell
C18_Witness ==
    /\ op = "step" /\ action = 4 /\ raised
    /\ prev_state = terminal_state /\ ~prev_done
    /\ state = terminal_state /\ ~done

\* the reward rule of a step from pre to new taken with done = false
RuleReward(pre, new) ==
    IF bump_reward # 0 /\ new = pre THEN bump_reward
    ELSE IF border_reward # 0 /\ OnBorder(pre) THEN border_reward
         ELSE step_reward

NoisyGrid == 0 < noise /\ noise < NoiseUnit

\* C19: with 0 < noise < 1, a step from a non-terminal grid cell with
\* done = false executes one of the four actions, moves to that action's
\* clamped move and is rewarded for the state actually reached; and for
\* every requested action each of the four clamped moves is a possible
\* result.
C19_NoisyStep ==
    /\ (ValidStep /\ NoisyGrid /\ ~prev_done
          /\ prev_state \in GridCells /\ prev_state # terminal_state)
         => /\ ~raised
            /\ executed \in ValidActions
            /\ state = ClampedMove(prev_state, executed)
            /\ retState = state
            /\ retReward = RuleReward(prev_state, state)
    /\ (NoisyGrid /\ ~done /\ state \in GridCells /\ state # terminal_state)
         => \A a \in ValidActions, b \in ValidActions :
              ENABLED (/\ _step(a)
                       /\ UNCHANGED <<steps, sampleVars, envVars, coordVars>>
                       /\ executed' = b
                       /\ state' = ClampedMove(state, b))

\* the requested action would have moved, its replacement bumped and was
\* paid bump_reward
C19_Witness ==
    /\ ValidStep /\ NoisyGrid /\ ~prev_done /\ ~raised
    /\ prev_state \in GridCells /\ prev_state # terminal_state
    /\ executed # action
    /\ ClampedMove(prev_state, action) # prev_state
    /\ state = prev_state
    /\ bump_reward # 0 /\ retReward = bump_reward

\* C20: with noise = 0 and 0 <= terminal_state_offset < n*n,
\* terminal_state = n*n - 1 - terminal_state_offset is a grid cell other
\* than the absorbing state, and a caller that heads for the terminal cell
\* receives done = true within 2*(n-1) + 1 steps, in the absorbing state.
C20_GreedyTerminates ==
    /\ [](/\ terminal_state = n * n - 1 - terminal_state_offset
          /\ terminal_state \in GridCells
          /\ terminal_state # absorbing_state)
    /\ [](steps <= 2 * (n - 1) + 1)
    /\ <>(done /\ retDone /\ state = absorbing_state)

\* an episode that needed all of its 2*(n-1) + 1 steps
C20_Witness ==
    /\ done /\ state = absorbing_state
    /\ n >= 3
    /\ steps = 2 * (n - 1) + 1

====
